---- MODULE Spec2Model ----
(***************************************************************************)
(* A model of go.py: the batch driver (main), the per-repository pipeline  *)
(* (process_repo), the publisher (commit_and_push_changes), the local      *)
(* mirror manager (ensure_repo_cloned_or_pulled), the export path          *)
(* (export_repos_from_url), the account parser (parse_github_account), the *)
(* locator (normalize_repo_spec) and the lister                            *)
(* (fetch_github_repositories, parse_next_link).                           *)
(*                                                                         *)
(* git and the file system are modelled by their observable state: a       *)
(* working tree, an index and a HEAD tree per mirror, and a tree and a     *)
(* commit count per remote.  Every subprocess and every file write may     *)
(* fail; which one fails is a nondeterministic input of the step.          *)
(***************************************************************************)
EXTENDS Integers, Sequences, FiniteSets, TLC

\* ------------------------------------------------------------- bounds
MaxList == 2          \* lines in a hand-written repository list file
MaxPages == 2         \* pages the remote listing may answer with
MaxAccountLen == 7    \* characters of an account argument (SpecAccount)
MaxRuns == 2          \* invocations of the program in a row (SpecRerun)
MaxSpecLen == 5       \* characters of a list line (SpecLocator)

\* ------------------------------------------------------------- files
\* has_license / has_readme / has_agents / has_gitignore: candidate names.
Categories == <<"license", "readme", "agents", "gitignore">>

Candidates(cat) ==
  CASE cat = "license"   -> <<"LICENSE", "LICENSE.txt", "LICENSE.md">>
    [] cat = "readme"    -> <<"README", "README.md", "README.txt">>
    [] cat = "agents"    -> <<"AGENTS.md">>
    [] cat = "gitignore" -> <<".gitignore">>

\* write_license / write_readme / write_agents / write_gitignore: the path.
WrittenName(cat) ==
  CASE cat = "license"   -> "LICENSE"
    [] cat = "readme"    -> "README.md"
    [] cat = "agents"    -> "AGENTS.md"
    [] cat = "gitignore" -> ".gitignore"

StatsName == "REPO_STATS.md"
SourceName == "app.py"

GovernanceNames ==
  UNION { { Candidates(Categories[k])[j] : j \in 1..Len(Candidates(Categories[k])) }
          : k \in 1..Len(Categories) }

FileNames == GovernanceNames \cup {StatsName, SourceName}

\* File contents.  A file is absent, holds what upstream put there, holds a
\* rendered template (n = number of language fragments, for .gitignore), or
\* holds the statistics report rendered from a RepoStats with n files.
Absent == [kind |-> "absent", n |-> 0]
Upstream == [kind |-> "upstream", n |-> 0]
Template(k) == [kind |-> "template", n |-> k]
StatsDoc(k) == [kind |-> "stats", n |-> k]

IsFile(tree, name) == tree[name].kind # "absent"

EmptyTree == [f \in FileNames |-> Absent]

TreeWith(names) == [f \in FileNames |-> IF f \in names THEN Upstream ELSE Absent]

\* Upstream repositories: a bare project, a project that already has the four
\* governance files, and one that has all four and an up-to-date report.  A
\* clone of a remote met for the first time shows one of UpstreamTrees.
BareTree == TreeWith({SourceName})
FullTree == TreeWith({SourceName, "LICENSE", "README.md", "AGENTS.md", ".gitignore"})
SettledTree ==
  [FullTree EXCEPT ![StatsName] = StatsDoc(Cardinality({f \in FileNames : IsFile(FullTree, f)}) + 1)]

\* A project whose report is up to date but whose governance files are gone.
StaleTree == [BareTree EXCEPT ![StatsName] = SettledTree[StatsName]]

UpstreamTrees == {BareTree, SettledTree, StaleTree}

\* Every tree upstream can have given the repository.
AllTrees ==
  { [f \in FileNames |-> IF f \in names THEN Upstream ELSE Absent] :
      names \in { ns \cup {SourceName} : ns \in SUBSET (GovernanceNames \cup {StatsName}) } }

\* ------------------------------------------------------------- probes
\* any(os.path.isfile(join(repo_dir, name)) for name in candidates)
AnyCandidate(tree, cat) ==
  \E j \in 1..Len(Candidates(cat)) : IsFile(tree, Candidates(cat)[j])

\* Mutant of HasLicense: only the name that write_license writes is probed.
HasLicenseExactOnly(tree) == IsFile(tree, "LICENSE")

HasLicense(tree) == AnyCandidate(tree, "license")
HasReadme(tree) == AnyCandidate(tree, "readme")
HasAgents(tree) == IsFile(tree, "AGENTS.md")
HasGitignore(tree) == IsFile(tree, ".gitignore")

Has(tree, cat) ==
  CASE cat = "license"   -> HasLicense(tree)
    [] cat = "readme"    -> HasReadme(tree)
    [] cat = "agents"    -> HasAgents(tree)
    [] cat = "gitignore" -> HasGitignore(tree)

\* ------------------------------------------------------------- statistics
\* os.path.splitext(name)[1].lower(): a leading dot starts no extension.
Ext(name) ==
  CASE name \in {"LICENSE.txt", "README.txt"} -> ".txt"
    [] name \in {"LICENSE.md", "README.md", "AGENTS.md", "REPO_STATS.md"} -> ".md"
    [] name = "app.py" -> ".py"
    [] OTHER -> ""

\* collect_repo_stats: one record per file of the working tree.
CollectRepoStats(tree) ==
  LET present == {f \in FileNames : IsFile(tree, f)}
  IN [total_files |-> Cardinality(present),
      exts |-> {Ext(f) : f \in present}]

\* detect_languages: the languages EXTENSION_LANGUAGE_MAP gives the extensions.
DetectLanguages(stats) == IF ".py" \in stats.exts THEN <<"python">> ELSE <<>>

\* generate_gitignore_content: the base fragment, then one per language.
GitignoreParts(languages) == <<"base">> \o languages

\* ------------------------------------------------------------- account parser
\* Strings are sequences of characters.  "G" stands for the text github.com
\* (letters and a dot, so it may be part of a scheme), "a" for a letter.
AccountChars == {":", "/", "G", "a", " "}
SchemeChars == {"G", "a"}

RECURSIVE LStrip(_)
LStrip(s) == IF s # <<>> /\ Head(s) = " " THEN LStrip(Tail(s)) ELSE s

RECURSIVE RStrip(_)
RStrip(s) ==
  IF s # <<>> /\ s[Len(s)] = " " THEN RStrip(SubSeq(s, 1, Len(s) - 1)) ELSE s

\* str.strip()
Strip(s) == RStrip(LStrip(s))

\* str.find(c) + 1: the first position of c, 0 when there is none.
Find(s, c) ==
  IF \E i \in 1..Len(s) : s[i] = c
  THEN CHOOSE i \in 1..Len(s) : s[i] = c /\ \A j \in 1..(i - 1) : s[j] # c
  ELSE 0

Contains(s, c) == \E i \in 1..Len(s) : s[i] = c

\* urllib.parse.urlparse, for strings without '?', '#' and ';': the scheme is
\* what precedes the first ':' when that is one or more scheme characters;
\* the netloc follows a leading '//' up to the next '/'; the rest is the path.
UrlParse(url) ==
  LET i == Find(url, ":")
      hasScheme == i > 1 /\ \A j \in 1..(i - 1) : url[j] \in SchemeChars
      scheme == IF hasScheme THEN SubSeq(url, 1, i - 1) ELSE <<>>
      rest == IF hasScheme THEN SubSeq(url, i + 1, Len(url)) ELSE url
      hasNetloc == Len(rest) >= 2 /\ rest[1] = "/" /\ rest[2] = "/"
      after == IF hasNetloc THEN SubSeq(rest, 3, Len(rest)) ELSE rest
      k == Find(after, "/")
      netloc == IF ~hasNetloc THEN <<>>
                ELSE IF k = 0 THEN after ELSE SubSeq(after, 1, k - 1)
      path == IF ~hasNetloc THEN rest
              ELSE IF k = 0 THEN <<>> ELSE SubSeq(after, k, Len(after))
  IN [scheme |-> scheme, netloc |-> netloc, path |-> path]

\* [part for part in path.split("/") if part]
RECURSIVE PathParts(_)
PathParts(path) ==
  IF path = <<>> THEN <<>>
  ELSE LET k == Find(path, "/")
       IN IF k = 0 THEN <<path>>
          ELSE IF k = 1 THEN PathParts(Tail(path))
          ELSE <<SubSeq(path, 1, k - 1)>> \o PathParts(SubSeq(path, k + 1, Len(path)))

Rejected(why) == [ok |-> FALSE, account |-> <<>>, error |-> why]
Accepted(name) == [ok |-> TRUE, account |-> name, error |-> ""]

\* parse_github_account
ParseGithubAccount(url_or_name) ==
  LET cleaned == Strip(url_or_name)
      parsed == UrlParse(cleaned)
      parts == PathParts(parsed.path)
  IN IF cleaned = <<>> THEN Rejected("required")
     ELSE IF parsed.scheme # <<>> \/ parsed.netloc # <<>>
       THEN IF ~Contains(parsed.netloc, "G") THEN Rejected("not github")
            ELSE IF parts = <<>> THEN Rejected("missing account")
            ELSE Accepted(parts[1])
     ELSE IF Contains(cleaned, "/") THEN Rejected("repo url")
     ELSE Accepted(cleaned)

\* ------------------------------------------------------------- list lines
\* A line of the repository list file is text: a sequence of characters, a
\* word of letters ("o1", "x", "git", "https", ...) standing for one character.
\* RepoLine is an owner/name spec, SkipLine a comment line.
RepoLine(o, n) == <<o, "/", n>>
SkipLine == <<"#">>
NoText == <<>>

RepoRefs == {RepoLine("o1", "x"), RepoLine("o1", "y"), RepoLine("o2", "x")}
ListLines == RepoRefs \cup {SkipLine}

\* The lists a user may have written by hand.
Lists == UNION { [1..n -> ListLines] : n \in 0..MaxList }

\* What the listing API answers for the account: pages of repository
\* objects, each given by its full_name; NoText is an object without one.
AccountRepos == {r \in RepoRefs : r[1] = "o1"}
Payloads == {<<>>} \cup {<<r>> : r \in AccountRepos}
            \cup {<<RepoLine("o1", "y"), RepoLine("o1", "x")>>}
            \cup {<<NoText, RepoLine("o1", "x")>>}

\* The order of str on the full names owner/name.
FullNameLess(a, b) ==
  \/ a[1] = "o1" /\ b[1] = "o2"
  \/ a[1] = b[1] /\ a[3] = "x" /\ b[3] = "y"

RECURSIVE SortedSeq(_)
SortedSeq(set) ==
  IF set = {} THEN <<>>
  ELSE LET least == CHOOSE a \in set : \A b \in set \ {a} : FullNameLess(a, b)
       IN <<least>> \o SortedSeq(set \ {least})

\* write_repo_list: sorted(dict.fromkeys(repos)), one per line.
WriteRepoList(repos) == SortedSeq({repos[i] : i \in 1..Len(repos)})

\* ------------------------------------------------------------- locator
\* sub in s
HasSubSeq(s, sub) ==
  \E i \in 1..(Len(s) - Len(sub) + 1) : SubSeq(s, i, i + Len(sub) - 1) = sub

\* s.startswith(prefix)
StartsWith(s, prefix) ==
  Len(s) >= Len(prefix) /\ SubSeq(s, 1, Len(prefix)) = prefix

\* str.rfind(c) + 1: the last position of c, 0 when there is none.
RFind(s, c) ==
  IF \E i \in 1..Len(s) : s[i] = c
  THEN CHOOSE i \in 1..Len(s) : s[i] = c /\ \A j \in (i + 1)..Len(s) : s[j] # c
  ELSE 0

\* Mutant of LastSegment: the whole spec names the directory.
WholeSpec(s) == s

\* s.split("/")[-1], and os.path.basename(s): what follows the last '/'.
LastSegment(s) == SubSeq(s, RFind(s, "/") + 1, Len(s))

\* os.path.splitext(name)[0] for a name without '/': the name up to its last
\* '.', unless only dots precede that '.'.
SplitExtRoot(name) ==
  LET d == RFind(name, ".")
  IN IF d > 0 /\ \E j \in 1..(d - 1) : name[j] # "."
     THEN SubSeq(name, 1, d - 1)
     ELSE name

UrlPrefix == <<"https", ":", "/", "/", "github", ".", "com", "/">>
GitSuffix == <<".", "git">>

\* normalize_repo_spec: ok is FALSE where it raises ValueError.
NormalizeRepoSpec(spec) ==
  LET cleaned == Strip(spec)
  IN IF cleaned = <<>>
     THEN [ok |-> FALSE, clone_url |-> NoText, local_name |-> NoText]
     ELSE IF HasSubSeq(cleaned, <<":", "/", "/">>) \/ StartsWith(cleaned, <<"git", "@">>)
     THEN [ok |-> TRUE, clone_url |-> cleaned,
           local_name |-> SplitExtRoot(LastSegment(cleaned))]
     ELSE [ok |-> TRUE, clone_url |-> UrlPrefix \o cleaned \o GitSuffix,
           local_name |-> LastSegment(cleaned)]

\* The hosted repositories and the mirror directories the lines can name.
CloneUrls(lines) == {NormalizeRepoSpec(l).clone_url : l \in lines}
LocalNames(lines) == {NormalizeRepoSpec(l).local_name : l \in lines}
Names == LocalNames(RepoRefs)

\* ------------------------------------------------------------- lister
\* fetch_github_repositories: the URL of the first page.
FirstPageUrl(account) == <<"users", "/">> \o account \o <<"/", "repos">>

\* The URLs the API can name as a further page, and as an earlier one.
PageUrls == {<<"p2">>, <<"p3">>}

\* One element of a Link header, <url>; rel="...": the word rel stands for
\* the text rel="next", rel="prev", ...
LinkElement(url, rel) == <<"<">> \o url \o <<">", ";", " ", rel>>

\* The Link header of a page whose predecessor is prev and whose successor is
\* next (NoText where there is none); no header when it has neither.
LinkHeader(prev, next) ==
  IF prev = NoText /\ next = NoText THEN NoText
  ELSE IF prev = NoText THEN LinkElement(next, "next")
  ELSE IF next = NoText THEN LinkElement(prev, "prev")
  ELSE LinkElement(prev, "prev") \o <<",", " ">> \o LinkElement(next, "next")

\* s.split(c)
RECURSIVE Split(_, _)
Split(s, c) ==
  LET k == Find(s, c)
  IN IF k = 0 THEN <<s>>
     ELSE <<SubSeq(s, 1, k - 1)>> \o Split(SubSeq(s, k + 1, Len(s)), c)

\* parse_next_link: the for loop over the parts from the n-th on.
RECURSIVE NextLinkFrom(_, _)
NextLinkFrom(parts, n) ==
  IF n > Len(parts) THEN NoText
  ELSE LET section == Strip(parts[n])
           url_part == Strip(Split(section, ";")[1])
       IN IF ~Contains(section, "next") THEN NextLinkFrom(parts, n + 1)
          ELSE IF ~StartsWith(section, <<"<">>) THEN NextLinkFrom(parts, n + 1)
          ELSE IF StartsWith(url_part, <<"<">>) /\ url_part[Len(url_part)] = ">"
          THEN SubSeq(url_part, 2, Len(url_part) - 1)
          ELSE NextLinkFrom(parts, n + 1)

\* Mutant of ParseNextLink: the URL of the first element, whatever its rel.
ParseFirstLink(link_header) ==
  IF link_header = NoText THEN NoText
  ELSE SubSeq(link_header, 2, Find(link_header, ">") - 1)

\* parse_next_link
ParseNextLink(link_header) ==
  IF link_header = NoText THEN NoText
  ELSE NextLinkFrom(Split(link_header, ","), 1)

\* for repo in payload: if repo.get("full_name"): repos.append(full_name)
FullNames(payload) == SelectSeq(payload, LAMBDA r : r # NoText)

\* ------------------------------------------------------------- state
VARIABLES
  args,      \* the parsed command line (argparse.Namespace)
  pc,        \* where main / process_repo / commit_and_push_changes stands
  exitCode,  \* "none" while running, then the process exit status
  files,     \* the repository list files, by path
  fetched,   \* fetch_github_repositories: repos accumulated so far
  page,      \* fetch_github_repositories: pages requested so far
  repos,     \* main: the lines read from the list file
  idx,       \* main: position of the for loop (1-based)
  status,    \* per list entry: PENDING, RUNNING, DONE, FAILED
  order,     \* the entries process_repo was called for, in call order
  mirror,    \* base_dir/<local_name>: the working copy, if any
  remote,    \* the hosted repositories, by clone URL
  cur,       \* process_repo's locals for the entry in progress
  made,      \* commits created by this invocation
  run,       \* invocations of the program so far
  exportErr, \* the error export_repos_from_url raised, "none" if none
  account,   \* export_repos_from_url: the account parse_github_account gave
  nextUrl,   \* fetch_github_repositories: next_url
  served,    \* the requests the listing API answered, in order
  found      \* the list files, mirrors and flags as this invocation found them

vars == <<args, pc, exitCode, files, fetched, page, repos, idx, status, order,
          mirror, remote, cur, made, run, exportErr, account, nextUrl,
          served, found>>

ListPaths == {"list.txt", "out.txt", "repos.txt"}
NoFile == [exists |-> FALSE, lines |-> <<>>]
ListFile(lines) == [exists |-> TRUE, lines |-> lines]

NoMirror == [exists |-> FALSE, origin |-> NoText, wt |-> EmptyTree,
             index |-> EmptyTree, head |-> EmptyTree, commits |-> 0]
UnknownRemote == [known |-> FALSE, tree |-> EmptyTree, commits |-> 0]

\* process_repo's locals, and what its subprocesses came to: before is the
\* working tree as collect_repo_stats walked it.
NoCur == [url |-> NoText, name |-> NoText, stats |-> CollectRepoStats(EmptyTree),
          before |-> EmptyTree, k |-> 1, created |-> <<>>, staged |-> {},
          mirrorOp |-> "none", statusOut |-> "none",
          commitRes |-> "none", pushRes |-> "none"]

AccountInputs == {<<>>, <<"a">>, <<"a", "/", "a">>}

\* The command lines considered.  Flags that the run cannot read are fixed:
\* without an export there is no output path, without --name nothing is
\* processed and --dry-run / --write-stats-file are not looked at.
ArgSets ==
  { a \in [url : AccountInputs, out : {"", "out.txt"}, repos_file : {"", "list.txt"},
           name : BOOLEAN, dry_run : BOOLEAN, stats : BOOLEAN] :
      /\ a.url = <<>> => a.out = ""
      /\ ~a.name => ~a.dry_run /\ ~a.stats }

InitRest ==
  /\ pc = "start"
  /\ exitCode = "none"
  /\ fetched = <<>>
  /\ page = 0
  /\ repos = <<>>
  /\ idx = 1
  /\ status = <<>>
  /\ order = <<>>
  /\ cur = NoCur
  /\ made = 0
  /\ run = 1
  /\ exportErr = "none"
  /\ account = <<>>
  /\ nextUrl = NoText
  /\ served = <<>>

\* The state main starts in: a command line, and the list files on disk.  A
\* hand-written list is considered when no export is asked for; with an
\* export, list.txt is absent or holds one earlier list.
Init ==
  /\ args \in ArgSets
  /\ \E l \in [exists : BOOLEAN, lines : Lists] :
       /\ ~l.exists => l.lines = <<>>
       /\ args.url # <<>> => l.lines = IF l.exists THEN <<RepoLine("o1", "x")>> ELSE <<>>
       /\ files = [p \in ListPaths |-> IF p = "list.txt" THEN l ELSE NoFile]
  /\ InitRest
  /\ mirror = [n \in Names |-> NoMirror]
  /\ remote = [u \in CloneUrls(RepoRefs) |-> UnknownRemote]
  /\ found = [files |-> files, mirror |-> mirror, remote |-> remote, flags |-> args]

\* ------------------------------------------------------------- main: export
procVars == <<repos, idx, status, order, mirror, remote, cur, made>>
exportVars == <<fetched, page, exportErr, account, nextUrl, served>>

\* main: if args.export_repos_from_url: ... (else straight to the checks)
Start ==
  /\ pc = "start"
  /\ pc' = IF args.url # <<>> THEN "export" ELSE "check"
  /\ UNCHANGED <<args, exitCode, files, found, run, exportVars, procVars>>

\* main: output_path = args.export_output_file or args.repos_file or "repos.txt"
OutputPath ==
  IF args.out # "" THEN args.out
  ELSE IF args.repos_file # "" THEN args.repos_file
  ELSE "repos.txt"

\* Mutant of ExportFailure: the error is printed and main goes on.
ExportFailureIgnored ==
  /\ pc' = "check"
  /\ exitCode' = exitCode

\* main: except Exception as exc: print(...); sys.exit(1)
ExportFailure ==
  /\ pc' = "exit"
  /\ exitCode' = "1"

\* export_repos_from_url: account = parse_github_account(url_or_name), then
\* fetch_github_repositories is entered: repos = [], next_url = the first page
ExportAccount ==
  /\ pc = "export"
  /\ LET r == ParseGithubAccount(args.url)
     IN IF r.ok
        THEN /\ pc' = "fetch"
             /\ account' = r.account
             /\ nextUrl' = FirstPageUrl(r.account)
             /\ UNCHANGED <<exitCode, exportErr>>
        ELSE /\ exportErr' = "InvalidAccount"
             /\ account' = account
             /\ nextUrl' = nextUrl
             /\ ExportFailure
  /\ UNCHANGED <<args, files, found, run, fetched, page, served, procVars>>

\* What one request of the listing can come to: a page (a list), a 404, any
\* other HTTP error status, or a body that is not a list.
ListingErrors == {"AccountNotFound", "RemoteError", "MalformedResponse"}

\* The page the API serves at url: the one it served there before, or for a
\* URL not yet requested any payload and any successor that keeps the chain
\* of pages finite (a URL not yet served, none once MaxPages are reached).
Responses(url) ==
  IF \E i \in 1..Len(served) : served[i].url = url
  THEN {served[CHOOSE i \in 1..Len(served) : served[i].url = url]}
  ELSE { [url |-> url, payload |-> payload,
          link |-> LinkHeader(IF served = <<>> THEN NoText ELSE served[Len(served)].url,
                              next),
          next |-> next] :
           payload \in Payloads,
           next \in {u \in PageUrls \cup {NoText} :
                      /\ \A i \in 1..Len(served) : served[i].url # u
                      /\ u # url
                      /\ Len(served) + 1 >= MaxPages => u = NoText} }

\* fetch_github_repositories: one turn of the while loop: the request of
\* next_url, then the payload's names and parse_next_link on the Link header,
\* or the error raised for an HTTP error status or a body that is no list.
FetchPage ==
  /\ pc = "fetch"
  /\ \/ \E resp \in Responses(nextUrl) :
          /\ page < MaxPages
          /\ served' = Append(served, resp)
          /\ fetched' = fetched \o FullNames(resp.payload)
          /\ page' = page + 1
          /\ nextUrl' = ParseNextLink(resp.link)
          /\ pc' = IF ParseNextLink(resp.link) # NoText THEN "fetch" ELSE "write"
          /\ UNCHANGED <<exitCode, exportErr>>
     \/ \E err \in ListingErrors :
          /\ exportErr' = err
          /\ ExportFailure
          /\ UNCHANGED <<fetched, page, nextUrl, served>>
  /\ UNCHANGED <<args, files, found, run, account, procVars>>

\* export_repos_from_url: write_repo_list(output_path, repos); then main:
\* if not args.repos_file: args.repos_file = output_path;
\* if not args.name: return
WriteList ==
  /\ pc = "write"
  /\ files' = [files EXCEPT ![OutputPath] = ListFile(WriteRepoList(fetched))]
  /\ args' = [args EXCEPT !.repos_file = IF @ = "" THEN OutputPath ELSE @]
  /\ IF args.name
     THEN pc' = "check" /\ exitCode' = exitCode
     ELSE pc' = "exit" /\ exitCode' = "0"
  /\ fetched' = <<>>
  /\ page' = 0
  /\ nextUrl' = NoText
  /\ served' = <<>>
  /\ UNCHANGED <<found, run, exportErr, account, procVars>>

\* main: the usage checks and read_repo_list
CheckArgs ==
  /\ pc = "check"
  /\ IF args.repos_file = "" \/ ~args.name \/ ~files[args.repos_file].exists
     THEN /\ pc' = "exit"
          /\ exitCode' = "1"
          /\ UNCHANGED <<repos, status>>
     ELSE /\ repos' = files[args.repos_file].lines
          /\ status' = [i \in 1..Len(files[args.repos_file].lines) |-> "PENDING"]
          /\ pc' = "loop"
          /\ exitCode' = exitCode
  /\ UNCHANGED <<args, files, found, run, exportVars, idx, order, mirror, remote,
                 cur, made>>

\* ------------------------------------------------------------- main: the batch
outerVars == <<args, files, found, run, exportVars, repos>>

\* process_repo returns normally: the for loop takes the next entry.
Return ==
  /\ status' = [status EXCEPT ![idx] = "DONE"]
  /\ idx' = idx + 1
  /\ pc' = "loop"
  /\ exitCode' = exitCode

\* Mutant of Raise: the exception is not caught and ends main.
RaiseAborts ==
  /\ status' = [status EXCEPT ![idx] = "FAILED"]
  /\ idx' = idx
  /\ pc' = "exit"
  /\ exitCode' = "1"

\* process_repo raises: main's except Exception prints and the loop goes on.
Raise ==
  /\ status' = [status EXCEPT ![idx] = "FAILED"]
  /\ idx' = idx + 1
  /\ pc' = "loop"
  /\ exitCode' = exitCode

\* The step goes on inside process_repo.
Continue(next) ==
  /\ pc' = next
  /\ UNCHANGED <<status, idx, exitCode>>

\* main: the for loop is exhausted
LoopEnd ==
  /\ pc = "loop"
  /\ idx > Len(repos)
  /\ pc' = "exit"
  /\ exitCode' = "0"
  /\ UNCHANGED <<outerVars, idx, status, order, mirror, remote, cur, made>>

\* process_repo: repo_spec = repo_spec.strip();
\* if not repo_spec or repo_spec.startswith("#"): return
Skipped(line) == Strip(line) = <<>> \/ Head(Strip(line)) = "#"

\* main calls process_repo(repo_spec): skip blank and '#' lines, then
\* clone_url, local_name = normalize_repo_spec(repo_spec)
ProcessRepo ==
  /\ pc = "loop"
  /\ idx <= Len(repos)
  /\ order' = Append(order, idx)
  /\ IF Skipped(repos[idx])
     THEN /\ cur' = NoCur
          /\ Return
     ELSE IF ~NormalizeRepoSpec(Strip(repos[idx])).ok
     THEN /\ cur' = NoCur
          /\ Raise
     ELSE /\ cur' = [NoCur EXCEPT
                      !.url = NormalizeRepoSpec(Strip(repos[idx])).clone_url,
                      !.name = NormalizeRepoSpec(Strip(repos[idx])).local_name]
          /\ status' = [status EXCEPT ![idx] = "RUNNING"]
          /\ pc' = "mirror"
          /\ UNCHANGED <<idx, exitCode>>
  /\ UNCHANGED <<outerVars, mirror, remote, made>>

\* ------------------------------------------------------------- mirror manager
\* git clone: the working copy, the index and HEAD are the remote's tree.
Cloned(r, url) ==
  [exists |-> TRUE, origin |-> url, wt |-> r.tree, index |-> r.tree,
   head |-> r.tree, commits |-> r.commits]

\* subprocess.run(["git", "clone", ...], check=True) fails: it raises.
CloneFailure == Raise

\* Mutant of PullFailure: the failed pull raises, like the clone.
PullFailureRaises == Raise

\* except subprocess.CalledProcessError around git pull: print, go on.
PullFailure == Continue("collect")

\* ensure_repo_cloned_or_pulled.  A remote met for the first time shows the
\* tree upstream gave it.  Only this program pushes to the remotes, so a
\* fast-forward pull finds nothing new.
EnsureRepoClonedOrPulled ==
  /\ pc = "mirror"
  /\ IF ~mirror[cur.name].exists
     THEN \/ \E t \in UpstreamTrees :
               LET r == IF remote[cur.url].known THEN remote[cur.url]
                        ELSE [known |-> TRUE, tree |-> t, commits |-> 0]
               IN /\ remote[cur.url].known => t = BareTree
                  /\ remote' = [remote EXCEPT ![cur.url] = r]
                  /\ mirror' = [mirror EXCEPT ![cur.name] = Cloned(r, cur.url)]
                  /\ cur' = [cur EXCEPT !.mirrorOp = "cloned"]
                  /\ Continue("collect")
          \/ /\ cur' = [cur EXCEPT !.mirrorOp = "clone_failed"]
             /\ CloneFailure
             /\ UNCHANGED <<mirror, remote>>
     ELSE \/ /\ cur' = [cur EXCEPT !.mirrorOp = "pulled"]
             /\ Continue("collect")
             /\ UNCHANGED <<mirror, remote>>
          \/ /\ cur' = [cur EXCEPT !.mirrorOp = "pull_failed"]
             /\ PullFailure
             /\ UNCHANGED <<mirror, remote>>
  /\ UNCHANGED <<outerVars, order, made>>

\* process_repo: stats = collect_repo_stats(repo_dir); created_files = []
Collect ==
  /\ pc = "collect"
  /\ cur' = [cur EXCEPT !.stats = CollectRepoStats(mirror[cur.name].wt),
                        !.before = mirror[cur.name].wt]
  /\ Continue("provision")
  /\ UNCHANGED <<outerVars, order, mirror, remote, made>>

\* ------------------------------------------------------------- provisioner
\* What write_license / write_readme / write_agents / write_gitignore put in
\* the file.
Rendered(cat, stats) ==
  IF cat = "gitignore" THEN Template(Len(DetectLanguages(stats))) ELSE Template(0)

\* write_gitignore returns "" without writing when the content is empty.
WritesNothing(cat, stats) ==
  cat = "gitignore" /\ GitignoreParts(DetectLanguages(stats)) = <<>>

\* Mutant of ShouldWrite: the file is written whatever the probe says.
WriteRegardless(tree, cat) == TRUE

\* process_repo: if not has_<category>(repo_dir): write it
ShouldWrite(tree, cat) == ~Has(tree, cat)

\* process_repo: one of the four "if not has_...: created_files.append(write_...)"
Provision ==
  /\ pc = "provision"
  /\ LET cat == Categories[cur.k]
         wt == mirror[cur.name].wt
         next == IF cur.k = Len(Categories) THEN "stats" ELSE "provision"
     IN IF ~ShouldWrite(wt, cat)
        THEN /\ cur' = [cur EXCEPT !.k = @ + 1]
             /\ Continue(next)
             /\ UNCHANGED mirror
        ELSE IF WritesNothing(cat, cur.stats)
        THEN /\ cur' = [cur EXCEPT !.k = @ + 1]
             /\ Continue(next)
             /\ UNCHANGED mirror
        ELSE \/ /\ mirror' = [mirror EXCEPT ![cur.name].wt[WrittenName(cat)] =
                                              Rendered(cat, cur.stats)]
                /\ cur' = [cur EXCEPT !.k = @ + 1,
                                      !.created = Append(@, WrittenName(cat))]
                /\ Continue(next)
             \/ /\ Raise
                /\ UNCHANGED <<mirror, cur>>
  /\ UNCHANGED <<outerVars, order, remote, made>>

\* process_repo: if write_stats_file_flag: created_files.append(write_stats_file(..));
\* if not created_files: return
WriteStats ==
  /\ pc = "stats"
  /\ IF args.stats
     THEN \/ /\ mirror' = [mirror EXCEPT ![cur.name].wt[StatsName] =
                                           StatsDoc(cur.stats.total_files)]
             /\ cur' = [cur EXCEPT !.created = Append(@, StatsName)]
             /\ Continue("status")
          \/ /\ Raise
             /\ UNCHANGED <<mirror, cur>>
     ELSE /\ IF cur.created = <<>> THEN Return ELSE Continue("status")
          /\ UNCHANGED <<mirror, cur>>
  /\ UNCHANGED <<outerVars, order, remote, made>>

\* ------------------------------------------------------------- publisher
\* git status --porcelain prints something iff the working tree, the index
\* and HEAD are not all the same.
Porcelain(m) == IF m.wt = m.index /\ m.index = m.head THEN "" ELSE "changed"

\* process_repo: status = get_git_status_porcelain(repo_dir); if not status: return
GitStatus ==
  /\ pc = "status"
  /\ \/ /\ cur' = [cur EXCEPT !.statusOut = Porcelain(mirror[cur.name])]
        /\ IF Porcelain(mirror[cur.name]) = "" THEN Return ELSE Continue("publish")
     \/ /\ cur' = [cur EXCEPT !.statusOut = "failed"]
        /\ Raise
  /\ UNCHANGED <<outerVars, order, mirror, remote, made>>

\* git add <path> for the first n created files, in order.
RECURSIVE Staged(_, _, _)
Staged(m, created, n) ==
  IF n = 0 THEN m
  ELSE LET before == Staged(m, created, n - 1)
       IN [before EXCEPT !.index[created[n]] = before.wt[created[n]]]

\* Mutant of DryRun: the flag is not looked at.
DryRunIgnored == FALSE

\* commit_and_push_changes: if dry_run: print the three lines; return
DryRun == args.dry_run

\* commit_and_push_changes up to the commit: the dry-run return, else git add
\* for each created file; an add that fails raises (check=True).
StageFiles ==
  /\ pc = "publish"
  /\ IF cur.created = <<>>
     THEN /\ Return
          /\ UNCHANGED <<mirror, cur>>
     ELSE IF DryRun
     THEN /\ Return
          /\ UNCHANGED <<mirror, cur>>
     ELSE \E n \in 0..Len(cur.created) :
            /\ mirror' = [mirror EXCEPT ![cur.name] = Staged(@, cur.created, n)]
            /\ cur' = [cur EXCEPT !.staged = {cur.created[j] : j \in 1..n}]
            /\ IF n = Len(cur.created) THEN Continue("commit") ELSE Raise
  /\ UNCHANGED <<outerVars, order, remote, made>>

\* "nothing to commit" in exc.stderr.lower(): print, return
NothingToCommit == Return

\* Mutant of CommitFailure: every failed commit is taken as benign.
CommitFailureSwallowed == Return

\* any other CalledProcessError of git commit: raise
CommitFailure == Raise

\* commit_and_push_changes: git commit -m.  It succeeds only when the index
\* differs from HEAD; when it fails, git's message says "nothing to commit"
\* (only when nothing is staged) or something else.
GitCommit ==
  /\ pc = "commit"
  /\ LET m == mirror[cur.name]
     IN \/ /\ m.index # m.head
           /\ mirror' = [mirror EXCEPT ![cur.name].head = m.index,
                                       ![cur.name].commits = @ + 1]
           /\ made' = made + 1
           /\ cur' = [cur EXCEPT !.commitRes = "ok"]
           /\ Continue("push")
        \/ /\ m.index = m.head
           /\ cur' = [cur EXCEPT !.commitRes = "nothing"]
           /\ NothingToCommit
           /\ UNCHANGED <<mirror, made>>
        \/ /\ cur' = [cur EXCEPT !.commitRes = "error"]
           /\ CommitFailure
           /\ UNCHANGED <<mirror, made>>
  /\ UNCHANGED <<outerVars, order, remote>>

\* Mutant of PushFailure: the failed push raises.
PushFailureRaises == Raise

\* except subprocess.CalledProcessError around git push: print only
PushFailure == Return

\* commit_and_push_changes: git push sends HEAD and its history to origin.
GitPush ==
  /\ pc = "push"
  /\ LET m == mirror[cur.name]
     IN \/ /\ remote' = [remote EXCEPT ![m.origin].tree = m.head,
                                       ![m.origin].commits = m.commits]
           /\ cur' = [cur EXCEPT !.pushRes = "ok"]
           /\ Return
        \/ /\ cur' = [cur EXCEPT !.pushRes = "failed"]
           /\ PushFailure
           /\ UNCHANGED remote
  /\ UNCHANGED <<outerVars, order, mirror, made>>

\* ------------------------------------------------------------- specification
\* The steps of a run that processes a list without exporting one.
NextBatch ==
  \/ Start
  \/ CheckArgs
  \/ LoopEnd
  \/ ProcessRepo
  \/ EnsureRepoClonedOrPulled
  \/ Collect
  \/ Provision
  \/ WriteStats
  \/ GitStatus
  \/ StageFiles
  \/ GitCommit
  \/ GitPush

Next ==
  \/ NextBatch
  \/ ExportAccount
  \/ FetchPage
  \/ WriteList

\* One invocation of the program.
Spec == Init /\ [][Next]_vars

\* A command line that processes a hand-written list: --repos-file and --name.
BatchArgs == {a \in ArgSets : a.url = <<>> /\ a.repos_file = "list.txt" /\ a.name}

OnlyList(lines) == [p \in ListPaths |-> IF p = "list.txt" THEN ListFile(lines) ELSE NoFile]

\* The batch alone: every list of one owner's repositories and skipped lines,
\* with every remote a bare project.
BatchLists ==
  UNION { [1..n -> {l \in ListLines : l[1] # "o2"}] : n \in 0..MaxList }

InitBatch ==
  /\ args \in BatchArgs
  /\ \E lines \in BatchLists : files = OnlyList(lines)
  /\ InitRest
  /\ mirror = [n \in Names |-> NoMirror]
  /\ remote = [u \in CloneUrls(RepoRefs) |-> [known |-> TRUE, tree |-> BareTree, commits |-> 0]]
  /\ found = [files |-> files, mirror |-> mirror, remote |-> remote, flags |-> args]

SpecBatch == InitBatch /\ [][NextBatch]_vars

\* The program runs to its end: it is single-threaded and every step is a
\* blocking call that returns.
FairBatch == SpecBatch /\ WF_vars(NextBatch)

\* The batch over lists that name the repository x under two owners.
TwinLists ==
  UNION { [1..n -> {RepoLine("o1", "x"), RepoLine("o2", "x"), SkipLine}] :
            n \in 0..MaxList }

InitTwins ==
  /\ args \in BatchArgs
  /\ \E lines \in TwinLists : files = OnlyList(lines)
  /\ InitRest
  /\ mirror = [n \in Names |-> NoMirror]
  /\ remote = [u \in CloneUrls(RepoRefs) |-> UnknownRemote]
  /\ found = [files |-> files, mirror |-> mirror, remote |-> remote, flags |-> args]

SpecTwins == InitTwins /\ [][NextBatch]_vars

\* One repository, whatever upstream gave it.
InitProvision ==
  /\ args \in BatchArgs
  /\ files = OnlyList(<<RepoLine("o1", "x")>>)
  /\ InitRest
  /\ mirror = [n \in Names |-> NoMirror]
  /\ \E t \in AllTrees :
       remote = [u \in CloneUrls(RepoRefs) |->
                  IF u = NormalizeRepoSpec(RepoLine("o1", "x")).clone_url
                  THEN [known |-> TRUE, tree |-> t, commits |-> 0]
                  ELSE UnknownRemote]
  /\ found = [files |-> files, mirror |-> mirror, remote |-> remote, flags |-> args]

SpecProvision == InitProvision /\ [][NextBatch]_vars

\* The program is run again on what the last run left: the list files, the
\* mirrors and the remotes stay, the flags are the user's choice.
Restart ==
  /\ pc = "exit"
  /\ run < MaxRuns
  /\ run' = run + 1
  /\ \E a \in BatchArgs : args' = a
  /\ pc' = "start"
  /\ exitCode' = "none"
  /\ fetched' = <<>>
  /\ page' = 0
  /\ exportErr' = "none"
  /\ account' = <<>>
  /\ nextUrl' = NoText
  /\ served' = <<>>
  /\ repos' = <<>>
  /\ idx' = 1
  /\ status' = <<>>
  /\ order' = <<>>
  /\ cur' = NoCur
  /\ made' = 0
  /\ found' = [files |-> files, mirror |-> mirror, remote |-> remote, flags |-> args]
  /\ UNCHANGED <<files, mirror, remote>>

NextRerun == NextBatch \/ Restart

InitRerun ==
  /\ args \in BatchArgs
  /\ files = OnlyList(<<RepoLine("o1", "x")>>)
  /\ InitRest
  /\ mirror = [n \in Names |-> NoMirror]
  /\ remote = [u \in CloneUrls(RepoRefs) |-> UnknownRemote]
  /\ found = [files |-> files, mirror |-> mirror, remote |-> remote, flags |-> args]

\* Up to MaxRuns invocations in a row over one repository.
SpecRerun == InitRerun /\ [][NextRerun]_vars

\* Every account argument of up to MaxAccountLen characters.
AccountStrings == UNION { [1..n -> AccountChars] : n \in 0..MaxAccountLen }

InitAccount ==
  /\ \E u \in AccountStrings :
       args = [url |-> u, out |-> "", repos_file |-> "", name |-> FALSE,
               dry_run |-> FALSE, stats |-> FALSE]
  /\ files = [p \in ListPaths |-> NoFile]
  /\ InitRest
  /\ mirror = [n \in Names |-> NoMirror]
  /\ remote = [u \in CloneUrls(RepoRefs) |-> UnknownRemote]
  /\ found = [files |-> files, mirror |-> mirror, remote |-> remote, flags |-> args]

\* parse_github_account on every argument, as export_repos_from_url calls it.
SpecAccount == InitAccount /\ [][Start \/ ExportAccount]_vars

\* The export alone: --export-repos-from-url with an account name, no --name.
InitLister ==
  /\ args \in {a \in ArgSets : a.url = <<"a">> /\ ~a.name}
  /\ files = [p \in ListPaths |-> NoFile]
  /\ InitRest
  /\ mirror = [n \in Names |-> NoMirror]
  /\ remote = [u \in CloneUrls(RepoRefs) |-> UnknownRemote]
  /\ found = [files |-> files, mirror |-> mirror, remote |-> remote, flags |-> args]

NextLister == Start \/ ExportAccount \/ FetchPage \/ WriteList

SpecLister == InitLister /\ [][NextLister]_vars

\* Every request returns: urlopen answers or raises.
FairLister == SpecLister /\ WF_vars(NextLister)

\* Every list line of up to MaxSpecLen characters.
SpecChars == {"x", "/", ":", " ", "#", "git", "@", "."}
SpecStrings == UNION { [1..n -> SpecChars] : n \in 0..MaxSpecLen }

\* os.path.join(base_dir, local_name) for these names is base_dir itself or
\* its parent: a directory that exists before anything is cloned.
ExistingDirs == {<<>>, <<".">>, <<".", ".">>}

\* A list of one line, whatever the line; nothing has been cloned yet.
InitLocator ==
  /\ args \in {a \in BatchArgs : ~a.dry_run /\ ~a.stats}
  /\ \E s \in SpecStrings :
       /\ files = OnlyList(<<s>>)
       /\ mirror = [n \in LocalNames({s}) |->
                     [NoMirror EXCEPT !.exists = n \in ExistingDirs]]
       /\ remote = [u \in CloneUrls({s}) |-> UnknownRemote]
  /\ InitRest
  /\ found = [files |-> files, mirror |-> mirror, remote |-> remote, flags |-> args]

\* main, process_repo and normalize_repo_spec on every line, up to the
\* mirror manager's clone or pull.
SpecLocator ==
  InitLocator
  /\ [][Start \/ CheckArgs \/ ProcessRepo \/ EnsureRepoClonedOrPulled \/ LoopEnd]_vars

\* ------------------------------------------------------------- claims
\* The entry process_repo was last called for, 0 before the first call.
Last == Len(order)
InProcessRepo ==
  pc \in {"mirror", "collect", "provision", "stats", "status", "publish",
          "commit", "push"}
Final(i) == status[i] \in {"DONE", "FAILED"}

\* C1, the safety half: process_repo has been called for the entries
\* 1, 2, ..., in that order and once each; the entries before the loop
\* position are DONE or FAILED, the ones after it untouched.
C1_InOrder ==
  /\ order = [i \in 1..Last |-> i]
  /\ Last = IF InProcessRepo THEN idx ELSE idx - 1
  /\ \A i \in 1..Len(status) :
       /\ i < idx => Final(i)
       /\ i = idx => status[i] = IF InProcessRepo THEN "RUNNING" ELSE "PENDING"
       /\ i > idx => status[i] = "PENDING"

\* C1: the batch driver calls process_repo for each list entry exactly once,
\* in list order, and whatever fails in an entry, once the loop has started
\* it runs to its end: every entry ends DONE or FAILED and main returns
\* normally.
C1_BatchIsolatesFailures ==
  /\ []C1_InOrder
  /\ (pc = "loop") ~>
       (/\ pc = "exit"
        /\ exitCode = "0"
        /\ Last = Len(repos)
        /\ \A i \in 1..Len(repos) : Final(i))

\* C1 witness: the first entry failed and the second was processed to DONE.
C1_Witness ==
  /\ pc = "exit"
  /\ Len(status) >= 2
  /\ status[1] = "FAILED"
  /\ status[2] = "DONE"
  /\ ~Skipped(repos[2])

\* What git keeps of a mirror: index, HEAD and the number of commits.
Vcs(m) == <<m.index, m.head, m.commits>>

\* C5: in a dry run no step taken for an entry stages, commits or pushes: the
\* index, HEAD and history of every existing mirror and every remote stay as
\* they are, no commit is counted, and the publisher returns at once.
C5_DryRunMutatesNothing ==
  [][args.dry_run =>
       /\ \A n \in DOMAIN mirror : mirror[n].exists => Vcs(mirror'[n]) = Vcs(mirror[n])
       /\ \A u \in DOMAIN remote : remote[u].known => remote'[u] = remote[u]
       /\ made' = made
       /\ cur'.staged = {}
       /\ pc = "publish" => pc' = "loop" /\ status'[idx] = "DONE"
       /\ pc' \notin {"commit", "push"}]_vars

\* C5 witness: a dry run created files, git status showed them, and the
\* publisher returned with the entry DONE.
C5_Witness ==
  /\ args.dry_run
  /\ pc = "loop"
  /\ Last >= 1
  /\ cur.created # <<>>
  /\ cur.statusOut = "changed"
  /\ status[Last] = "DONE"

CreatedSet == {cur.created[j] : j \in 1..Len(cur.created)}

\* C6: when git commit is reached or has run, the run is not a dry run and
\* every created file has been staged; a commit that failed with "nothing to
\* commit" ends the entry DONE without a push; a commit that failed otherwise
\* ends the entry FAILED without a push.
C6_CommitOutcomes ==
  /\ (pc \in {"commit", "push"} \/ cur.commitRes # "none") =>
       /\ ~args.dry_run
       /\ cur.created # <<>>
       /\ cur.staged = CreatedSet
  /\ pc = "commit" =>
       \A f \in CreatedSet : mirror[cur.name].index[f] = mirror[cur.name].wt[f]
  /\ cur.commitRes = "nothing" =>
       cur.pushRes = "none" /\ ~InProcessRepo /\ status[Last] = "DONE"
  /\ cur.commitRes = "error" =>
       cur.pushRes = "none" /\ ~InProcessRepo /\ status[Last] = "FAILED"

\* C6 witness: both kinds of failed commit are met.
C6_Witness == cur.commitRes = "error" /\ cur.staged # {}
C6_WitnessNothing == cur.commitRes = "nothing" /\ cur.staged # {}

\* C7: git push runs only after this entry's git commit succeeded; a failed
\* push leaves the entry DONE, the local commit in place with the remote
\* behind it, and the loop at the next entry.
C7_PushFailureSwallowed ==
  /\ (pc = "push" \/ cur.pushRes # "none") => cur.commitRes = "ok"
  /\ cur.pushRes = "failed" =>
       /\ pc \in {"loop", "exit"}
       /\ exitCode \in {"none", "0"}
       /\ idx = Last + 1
       /\ status[Last] = "DONE"
       /\ mirror[cur.name].commits > remote[mirror[cur.name].origin].commits
       /\ mirror[cur.name].head # remote[mirror[cur.name].origin].tree

\* C7 witness: a push failed and the loop stands before a further entry.
C7_Witness ==
  /\ cur.pushRes = "failed"
  /\ pc = "loop"
  /\ idx <= Len(repos)

\* C8: with the mirror directory absent the step clones, and a failed clone
\* ends the entry FAILED with nothing probed or written; with the directory
\* present the step pulls, and whether the pull fails or not the entry goes
\* on to collecting, probing and publishing on the copy as it is.
C8_MirrorManager ==
  [][pc = "mirror" =>
       IF ~mirror[cur.name].exists
       THEN \/ /\ cur'.mirrorOp = "cloned"
               /\ mirror'[cur.name].exists
               /\ pc' = "collect"
               /\ status'[idx] = "RUNNING"
            \/ /\ cur'.mirrorOp = "clone_failed"
               /\ mirror' = mirror
               /\ cur'.created = <<>>
               /\ pc' = "loop"
               /\ status'[idx] = "FAILED"
       ELSE /\ cur'.mirrorOp \in {"pulled", "pull_failed"}
            /\ mirror' = mirror
            /\ pc' = "collect"
            /\ status'[idx] = "RUNNING"]_vars

\* C8 witness: after a failed pull the entry reached git push.
C8_Witness == cur.mirrorOp = "pull_failed" /\ pc = "push"
C8_WitnessClone == cur.mirrorOp = "clone_failed" /\ status[Last] = "FAILED"

\* C9: once the listing has failed, main has exited with status 1, no list
\* file has been created or written, and no repository has been processed.
C9_ExportFailure ==
  exportErr \in ListingErrors =>
    /\ pc = "exit"
    /\ exitCode = "1"
    /\ files = found.files
    /\ repos = <<>>
    /\ order = <<>>
    /\ mirror = found.mirror
    /\ remote = found.remote
    /\ made = 0

\* C9 witness: the listing failed on a later page of an export that was to
\* be followed by processing.
C9_Witness ==
  /\ exportErr \in ListingErrors
  /\ page >= 1
  /\ fetched # <<>>
  /\ args.name

\* The working copy of the entry in progress (or last processed).
CurTree == mirror[cur.name].wt

\* C2: for every category process_repo has got past, the category's file was
\* written iff none of its candidate names was a file in the mirror root; a
\* written file holds the rendered template, and where a candidate existed
\* every candidate of the category is as it was, present or absent.
C2_ProvisionIffAbsent ==
  \A j \in 1..Len(Categories) :
    j < cur.k =>
      LET cat == Categories[j]
      IN IF AnyCandidate(cur.before, cat)
         THEN /\ WrittenName(cat) \notin CreatedSet
              /\ \A i \in 1..Len(Candidates(cat)) :
                   CurTree[Candidates(cat)[i]] = cur.before[Candidates(cat)[i]]
         ELSE /\ WrittenName(cat) \in CreatedSet
              /\ CurTree[WrittenName(cat)] = Rendered(cat, cur.stats)

\* C2 witness: the run is over; LICENSE.md kept LICENSE from being written
\* and README.md was written because no README candidate existed.
C2_Witness ==
  /\ pc = "exit"
  /\ cur.k > Len(Categories)
  /\ IsFile(cur.before, "LICENSE.md")
  /\ ~IsFile(CurTree, "LICENSE")
  /\ ~AnyCandidate(cur.before, "readme")
  /\ CurTree["README.md"] = Template(0)

AllFourExist(tree) == \A j \in 1..Len(Categories) : AnyCandidate(tree, Categories[j])

PublisherIdle ==
  /\ pc \notin {"publish", "commit", "push"}
  /\ cur.staged = {}
  /\ cur.commitRes = "none"
  /\ cur.pushRes = "none"

\* C3 as claimed: a mirror is settled when it has the four governance files,
\* nothing uncommitted and nothing unpushed.  If the invocation before this
\* one left every listed repository's mirror settled and this one is run
\* with the same flags, it creates no commit.
Settled(m, remotes) ==
  /\ m.exists
  /\ AllFourExist(m.wt)
  /\ m.wt = m.index
  /\ m.index = m.head
  /\ remotes[m.origin].tree = m.head
  /\ remotes[m.origin].commits = m.commits

SecondRunOverSettled ==
  /\ run >= 2
  /\ args = found.flags
  /\ pc \notin {"start", "check"}
  /\ \A i \in 1..Len(repos) :
       ~Skipped(repos[i]) =>
         Settled(found.mirror[NormalizeRepoSpec(repos[i]).local_name], found.remote)

C3_Idempotent == SecondRunOverSettled => made = 0

\* C3 without the statistics report: the second run creates no commit.
C3_IdempotentWithoutStats == (SecondRunOverSettled /\ ~args.stats) => made = 0

C3_WitnessWithoutStats ==
  /\ SecondRunOverSettled
  /\ ~args.stats
  /\ pc = "exit"
  /\ found.mirror[<<"x">>].commits > 0

\* C4 as claimed: when the four governance files all exist, whatever the
\* flags, process_repo creates no file and the publisher is not called.
C4_AllPresentNoWork ==
  AllFourExist(cur.before) => cur.created = <<>> /\ PublisherIdle

\* C4 amended: when the four governance files all exist and the statistics
\* report is not asked for, process_repo creates no file, leaves the working
\* tree as it was and does not call the publisher.
C4_AllPresentNoStats ==
  (AllFourExist(cur.before) /\ ~args.stats) =>
    /\ cur.created = <<>>
    /\ CurTree = cur.before
    /\ pc \notin {"status"}
    /\ PublisherIdle

\* C4 witness: the entry is done on a mirror that had the four files, the
\* license and the README under their alternative names.
C4_Witness ==
  /\ pc = "exit"
  /\ ~args.stats
  /\ AllFourExist(cur.before)
  /\ IsFile(cur.before, "LICENSE.md")
  /\ IsFile(cur.before, "README.txt")
  /\ status = <<"DONE">>

\* C10 as claimed: a bare name is returned as it is; a URL on the hosting
\* domain with exactly one path segment gives that segment; an input with
\* further path segments is rejected with InvalidAccount.
C10_AccountExtraction ==
  pc \in {"fetch", "exit"} =>
    LET c == Strip(args.url)
        u == UrlParse(c)
        parts == PathParts(u.path)
        ok == pc = "fetch"
    IN /\ (c # <<>> /\ ~Contains(c, "/") /\ ~Contains(c, ":")) => ok /\ account = c
       /\ (Contains(u.netloc, "G") /\ Len(parts) = 1) => ok /\ account = parts[1]
       /\ Len(parts) >= 2 => ~ok /\ exportErr = "InvalidAccount"

\* C10 without its last part: bare names and one-segment URLs are accepted.
C10_AcceptedForms ==
  pc \in {"fetch", "exit"} =>
    LET c == Strip(args.url)
        u == UrlParse(c)
        parts == PathParts(u.path)
        ok == pc = "fetch"
    IN /\ (c # <<>> /\ ~Contains(c, "/") /\ ~Contains(c, ":")) => ok /\ account = c
       /\ (Contains(u.netloc, "G") /\ Len(parts) = 1) => ok /\ account = parts[1]

\* The line process_repo was last called for, stripped.
CurSpec == Strip(repos[Last])

\* The line is not taken as a clone URL by normalize_repo_spec.
NotCloneUrl(c) == ~HasSubSeq(c, <<":", "/", "/">>) /\ ~StartsWith(c, <<"git", "@">>)

Slashes(c) == Cardinality({i \in 1..Len(c) : c[i] = "/"})

\* The line has been normalized and handed to the mirror manager.
Located == Last >= 1 /\ (pc \in {"mirror", "collect"} \/ cur.mirrorOp # "none")

CloneAttempted == cur.mirrorOp \in {"cloned", "clone_failed"}

\* C11 as claimed: a line that is not a clone URL is normalized only when it
\* has exactly one '/'; then the clone URL is https://github.com/ + line +
\* .git and the local name is what follows the '/'; a line that is not a
\* clone URL and has no '/' or several is not normalized, and nothing is
\* cloned for it.
C11_OwnerNamePairOnly ==
  (Last >= 1 /\ NotCloneUrl(CurSpec)) =>
    /\ Located => Slashes(CurSpec) = 1
    /\ (Located /\ Slashes(CurSpec) = 1) =>
         /\ cur.url = UrlPrefix \o CurSpec \o GitSuffix
         /\ cur.name = SubSeq(CurSpec, Find(CurSpec, "/") + 1, Len(CurSpec))
    /\ Slashes(CurSpec) # 1 => ~Located /\ ~CloneAttempted

\* C11, the part that holds: every line with exactly one '/' that is neither
\* skipped nor a clone URL is normalized to https://github.com/ + line + .git
\* and to the local name that follows the '/'.
C11_ValidPairs ==
  (Last >= 1 /\ pc # "loop" /\ NotCloneUrl(CurSpec) /\ ~Skipped(CurSpec)
     /\ Slashes(CurSpec) = 1) =>
    /\ Located
    /\ cur.url = UrlPrefix \o CurSpec \o GitSuffix
    /\ cur.name = SubSeq(CurSpec, Find(CurSpec, "/") + 1, Len(CurSpec))

C11_WitnessValidPair ==
  /\ Last >= 1
  /\ CurSpec = <<"x", "/", "x">>
  /\ cur.mirrorOp = "cloned"
  /\ cur.name = <<"x">>
  /\ mirror[cur.name].origin = UrlPrefix \o <<"x", "/", "x">> \o GitSuffix

\* The full names of the repository objects of the first n pages served.
RECURSIVE ServedNames(_)
ServedNames(n) ==
  IF n = 0 THEN <<>>
  ELSE ServedNames(n - 1) \o SelectSeq(served[n].payload, LAMBDA r : r # NoText)

\* C12, the safety half: the first request is for the first page URL and each
\* further one for the URL the page before named as next; no URL is requested
\* twice; the names accumulated are those of every object of every page
\* served, in page order; the loop goes on exactly while the last page named
\* a next one, and returns after the first page that names none.
C12_FollowsChain ==
  /\ \A i \in 1..Len(served) :
       /\ served[i].url = IF i = 1 THEN FirstPageUrl(account) ELSE served[i - 1].next
       /\ i < Len(served) => served[i].next # NoText
       /\ \A j \in 1..Len(served) : i # j => served[i].url # served[j].url
  /\ page = Len(served)
  /\ fetched = ServedNames(Len(served))
  /\ pc = "fetch" =>
       nextUrl = IF served = <<>> THEN FirstPageUrl(account)
                 ELSE served[Len(served)].next
  /\ (pc = "fetch" /\ served # <<>>) => served[Len(served)].next # NoText
  /\ pc = "write" => served # <<>> /\ served[Len(served)].next = NoText

\* C12: the lister follows the chain of pages as C12_FollowsChain says, and
\* on every finite chain it terminates: it returns the names after the page
\* that names no next one, or a failed request raises.
C12_Pagination ==
  /\ []C12_FollowsChain
  /\ (pc = "fetch") ~> (pc = "write" \/ (pc = "exit" /\ exportErr \in ListingErrors))

\* C12 witness: the lister returns after two pages with repositories, the
\* second with a Link header that names only the page before.
C12_Witness ==
  /\ pc = "write"
  /\ Len(served) = 2
  /\ served[2].link = LinkElement(FirstPageUrl(account), "prev")
  /\ Len(fetched) >= 2
  /\ fetched = FullNames(served[1].payload) \o FullNames(served[2].payload)

\* A governance file of mirror n that an earlier invocation wrote and left
\* uncommitted: this invocation found the rendered template in the working
\* copy and not in HEAD.
Leftover(n, f) ==
  /\ run >= 2
  /\ found.mirror[n].exists
  /\ found.mirror[n].wt[f].kind = "template"
  /\ found.mirror[n].head[f] # found.mirror[n].wt[f]

\* This invocation has neither staged nor committed nor pushed file f of
\* mirror n: index, HEAD and the remote hold for f what they held at its start.
Unpublished(n, f) ==
  /\ (cur.name = n) => f \notin cur.staged
  /\ mirror[n].index[f] = found.mirror[n].index[f]
  /\ mirror[n].head[f] = found.mirror[n].head[f]
  /\ remote[mirror[n].origin].tree[f] = found.remote[mirror[n].origin].tree[f]

\* C13 as claimed: a governance file that an earlier invocation wrote and
\* left uncommitted is never staged, committed or pushed by a later one,
\* whatever its flags.
C13_LeftoverNeverPublished ==
  \A n \in DOMAIN mirror : \A f \in GovernanceNames :
    Leftover(n, f) => Unpublished(n, f)

\* C13 for the files the earlier invocation left unstaged (a dry run, or a
\* run that failed before git add reached the file): no later invocation
\* stages, commits or pushes them.
C13_UnstagedLeftoverNeverPublished ==
  \A n \in DOMAIN mirror : \A f \in GovernanceNames :
    (Leftover(n, f) /\ found.mirror[n].index[f] # found.mirror[n].wt[f]) =>
      Unpublished(n, f)

\* A later invocation committed and pushed the report while a governance
\* file of an earlier dry run lay unstaged in the working copy.
C13_WitnessUnstaged ==
  /\ run >= 2
  /\ cur.pushRes = "ok"
  /\ Leftover(cur.name, "LICENSE")
  /\ found.mirror[cur.name].index["LICENSE"] = Absent
  /\ found.flags.dry_run

\* Owner and name of an owner/name line.
OwnerOf(line) == SubSeq(Strip(line), 1, Find(Strip(line), "/") - 1)
NameOf(line) == SubSeq(Strip(line), Find(Strip(line), "/") + 1, Len(Strip(line)))

\* Entry j is an earlier entry for the same repository name as entry i, under
\* another owner.
Twin(j, i) ==
  /\ j < i
  /\ ~Skipped(repos[j])
  /\ ~Skipped(repos[i])
  /\ NameOf(repos[j]) = NameOf(repos[i])
  /\ OwnerOf(repos[j]) # OwnerOf(repos[i])

\* process_repo has normalized entry Last and is at or past the mirror manager.
Located14 == Last >= 1 /\ ~Skipped(repos[Last]) /\ cur.url # NoText

====
